---- MODULE Spec2Model ----
(***************************************************************************)
(* The catalog store of the screenshot library (src/utils_db.py) and its   *)
(* callers in src/app.py.                                                  *)
(*                                                                         *)
(* Python strings are modelled as sequences of one-character strings, so   *)
(* that ",".join, str.split(','), os.path.basename and the f-string that   *)
(* builds the document id are computed character by character.             *)
(***************************************************************************)
EXTENDS Integers, Sequences, FiniteSets, TLC

VARIABLES
    store,      \* the Chroma collection: sequence of [id, metadata], insertion order
    files,      \* the paths that exist on disk under screenshots_library/
    addMode,    \* what collection.add does for an id that already exists
    last,       \* the last call: its name, key argument and what it returned
    pending,    \* the calls that have started and not returned: a delete between its
                \* two steps, or one call per thread of the server
    input,      \* the argument of the pure function under study
    output,     \* what that function returned for it, NotCalled before the call
    session     \* st.session_state of the one browser session

vars == <<store, files, addMode, last, pending, input, output, session>>

----------------------------------------------------------------------------
(* Bounds and input sets                                                   *)

\* longest list of descriptive tags a caller passes
MaxTags == 1

TagA == <<"a">>
TagB == <<"b">>
\* tags as app.py produces them (stripped, non-empty, split on commas)
AppTags == {TagA, TagB}

ListsOver(S, n) == UNION {[1..k -> S] : k \in 0..n}

\* the tag lists the callers in app.py pass: a project has no tag or TagA,
\* descriptive tag lists repeat TagB or hold the tag the project has too
ProjectTagLists == {<<>>, <<TagA>>}
DescriptiveTagLists == ListsOver({TagB}, MaxTags) \cup {<<TagA>>}

\* every list of such tags within the bound
AppTagLists == ListsOver(AppTags, MaxTags)

\* strings a direct caller of the store may pass as tags: also "" and "a,b"
RawTags == AppTags \cup {<<>>, <<"a", ",", "b">>}
RawTagLists == ListsOver(RawTags, MaxTags)

ProjA  == <<"a">>
ProjAB == <<"a", "_", "b">>
FileC  == <<"c">>
FileBC == <<"b", "_", "c">>
\* the (project name, uploaded file name) pairs a batch may hold
Uploads == {<<ProjA, FileC>>, <<ProjA, FileBC>>, <<ProjAB, FileC>>}

ProjectNames == {u[1] : u \in Uploads}

\* the image_data / new_data dicts a caller passes; the last one lacks every key
EmptyDict == [k \in {} |-> ""]
DataDict(t) == [company_name |-> "acme", product_category |-> "crm", descriptive_tags |-> t]
DataDicts == {DataDict(t) : t \in DescriptiveTagLists} \cup {EmptyDict}

\* the name the selectbox of app.py and utils_search.py use for "no filter"
AllProjects == <<"A", "l", "l", " ", "P", "r", "o", "j", "e", "c", "t", "s">>
\* a query typed with a capital letter (app.py lowers the tags it stores)
TagUpperB == <<"B">>
\* the uploads of the search scenarios: two files of one project, and one
\* file of a project whose name is the text "All Projects"
SearchUploads == {<<ProjA, FileC>>, <<ProjA, FileBC>>, <<AllProjects, FileC>>}

\* an optional argument: <<>> is None, <<v>> is the value v
None == <<>>
\* the largest n_results a caller passes explicitly
MaxResults == 2
ResultLimits == {None} \cup {<<n>> : n \in 0..MaxResults}
\* config.DEFAULT_SEARCH_RESULTS
DEFAULT_SEARCH_RESULTS == 12

\* project_filter: None (or "", equally falsy) and the project names in use
ProjectFilters == {None} \cup {u[1] : u \in SearchUploads}
\* the texts typed into the tag search
TagQueries == {TagA, TagUpperB, <<"a", ",", "B">>, <<"c">>}

\* the character code fences are made of, written ~ in this module
Tick == "~"

\* the pieces a model response is made of: objects that parse (one with a
\* closing brace inside a string, one with an escaped quote before it), a
\* block that does not parse, stray braces and quotes, JSON values that are
\* no object, the two fences, and commentary
Fragments ==
    { <<"{", "\"", "a", "\"", ":", "1", "}">>,
      <<"{", "\"", "a", "\"", ":", "\"", "}", "\"", "}">>,
      <<"{", "\"", "\\", "\"", "}", "\"", ":", "1", "}">>,
      <<"{", "a", "}">>,
      <<"{">>,
      <<"}">>,
      <<"\"">>,
      <<"[", "1", "]">>,
      <<"1">>,
      <<Tick, Tick, Tick, "j", "s", "o", "n", "\n">>,
      <<Tick, Tick, Tick>>,
      <<" ">>,
      <<"x">> }

\* the most pieces in one response text
MaxFragments == 3

RECURSIVE Flatten(_)
Flatten(parts) == IF parts = <<>> THEN <<>> ELSE Head(parts) \o Flatten(Tail(parts))

\* the response texts
Texts == {Flatten(parts) : parts \in ListsOver(Fragments, MaxFragments)}

\* the longest category candidate
MaxCategoryLen == 3
\* the candidates: every text of letters in both cases and blanks
Candidates == ListsOver({"a", "b", "A", " "}, MaxCategoryLen)

\* the thresholds passed: None for the configured one, or a fraction
Thresholds == {None, <<0, 1>>, <<1, 2>>, <<1, 1>>}

\* a project name typed with a capital and a blank
ProjSpaced == <<"A", " ", "b">>
\* the project name typed into the upload tab
IngestNames == {ProjSpaced}
\* the files selected in the uploader, in their order
Batches == {<<FileBC>>, <<FileC, FileBC>>}
\* the most batches one session ends, by a commit or a cancel
MaxBatches == 2

\* what the user types into the company and category fields of the review
CompanyTyped == {<<" ">>, <<"A", "c", "m", "e">>}
CategoryTyped == {<<>>, <<"C", "r", "m">>}

\* the script runs (one per browser session) that call the store at once
Threads == {1, 2}
\* the project tags two sessions save at the same time
RaceTagLists == {<<TagB>>, <<TagA, TagB>>}

----------------------------------------------------------------------------
(* Python built-ins                                                        *)

\* sep.join(list) with sep = ","
RECURSIVE Join(_)
Join(list) ==
    IF list = <<>> THEN <<>>
    ELSE IF Len(list) = 1 THEN list[1]
    ELSE list[1] \o <<",">> \o Join(Tail(list))

\* s.split(','): "" gives [""], "a," gives ["a", ""]
RECURSIVE Split(_)
Split(s) ==
    LET idx == {i \in 1..Len(s) : s[i] = ","} IN
    IF idx = {} THEN <<s>>
    ELSE LET i == CHOOSE j \in idx : \A k \in idx : j <= k
         IN <<SubSeq(s, 1, i - 1)>> \o Split(SubSeq(s, i + 1, Len(s)))

\* the idiom  s.split(',') if s else []
GuardedSplit(s) == IF s = <<>> THEN <<>> ELSE Split(s)

\* set(list)
ListSet(list) == {list[i] : i \in DOMAIN list}

\* list(set): the elements once each, in an order the build chooses
Orders(S) ==
    {f \in [1..Cardinality(S) -> S] : \A i, j \in DOMAIN f : i # j => f[i] # f[j]}

\* d.get(k, default)
Get(d, k, default) == IF k \in DOMAIN d THEN d[k] ELSE default

\* os.path.basename(path)
Basename(path) ==
    LET idx == {i \in 1..Len(path) : path[i] = "/"} IN
    IF idx = {} THEN path
    ELSE LET i == CHOOSE j \in idx : \A k \in idx : j >= k
         IN SubSeq(path, i + 1, Len(path))

\* the upper-case letters and their lower-case forms
LowerOf ==
    [A |-> "a", B |-> "b", C |-> "c", D |-> "d", E |-> "e", F |-> "f", G |-> "g",
     H |-> "h", I |-> "i", J |-> "j", K |-> "k", L |-> "l", M |-> "m", N |-> "n",
     O |-> "o", P |-> "p", Q |-> "q", R |-> "r", S |-> "s", T |-> "t", U |-> "u",
     V |-> "v", W |-> "w", X |-> "x", Y |-> "y", Z |-> "z"]

\* a str.lower() that leaves every character as it is
LowerKeepsCase(s) == s

\* s.lower()
Lower(s) == [i \in DOMAIN s |-> IF s[i] \in DOMAIN LowerOf THEN LowerOf[s[i]] ELSE s[i]]

\* sub in s
Contains(sub, s) ==
    \E i \in 1..(Len(s) - Len(sub) + 1) : SubSeq(s, i, i + Len(sub) - 1) = sub

\* list[:n] for n >= 0
Prefix(list, n) == SubSeq(list, 1, IF n < Len(list) THEN n ELSE Len(list))

\* s.find(sub, start) with positions counted from 1: 0 when sub does not occur
Find(s, sub, start) ==
    LET at == {i \in start..(Len(s) - Len(sub) + 1) : SubSeq(s, i, i + Len(sub) - 1) = sub}
    IN  IF at = {} THEN 0 ELSE CHOOSE i \in at : \A j \in at : i <= j

\* s.split(sub, 1)[1], for a sub that occurs in s
AfterFirst(s, sub) == SubSeq(s, Find(s, sub, 1) + Len(sub), Len(s))

\* s.split(sub, 1)[0]
BeforeFirst(s, sub) ==
    IF Find(s, sub, 1) = 0 THEN s ELSE SubSeq(s, 1, Find(s, sub, 1) - 1)

Whitespace == {" ", "\n", "\t", "\r", "\f"}

\* s.strip()
RECURSIVE Strip(_)
Strip(s) ==
    IF s = <<>> THEN s
    ELSE IF s[1] \in Whitespace THEN Strip(Tail(s))
    ELSE IF s[Len(s)] \in Whitespace THEN Strip(SubSeq(s, 1, Len(s) - 1))
    ELSE s

LibraryRoot == <<"l", "i", "b">>

\* Path("screenshots_library") / project_name
ProjectFolder(project_name) == LibraryRoot \o <<"/">> \o project_name

\* save_uploaded_files: temp_dir / uploaded_file.name
SavedPath(project_name, file_name) == ProjectFolder(project_name) \o <<"/">> \o file_name

IsUnder(path, folder) ==
    /\ Len(path) > Len(folder)
    /\ SubSeq(path, 1, Len(folder) + 1) = folder \o <<"/">>

AllPaths == {SavedPath(u[1], u[2]) : u \in Uploads}

----------------------------------------------------------------------------
(* The collection                                                          *)

Ids(st) == {st[i].id : i \in DOMAIN st}

\* collection.get(ids=[doc_id])
GetById(st, doc_id) == SelectSeq(st, LAMBDA e : e.id = doc_id)

\* collection.get(where={"project_name": project_name})
GetWhereProject(st, project_name) ==
    SelectSeq(st, LAMBDA e : e.metadata.project_name = project_name)

\* an update that writes the metadata to every record
CollectionUpdateAll(st, doc_id, metadata) ==
    [i \in DOMAIN st |-> [id |-> st[i].id, metadata |-> metadata]]

\* collection.update(ids=[doc_id], metadatas=[metadata])
CollectionUpdate(st, doc_id, metadata) ==
    [i \in DOMAIN st |->
        IF st[i].id = doc_id THEN [id |-> doc_id, metadata |-> metadata] ELSE st[i]]

\* collection.delete(ids=ids)
CollectionDelete(st, ids) == SelectSeq(st, LAMBDA e : e.id \notin ids)

AddModes == {"raise", "ignore", "overwrite"}

\* a collection.add that never looks for the id
CollectionAddAppends(st, mode, doc_id, metadata) ==
    [store |-> Append(st, [id |-> doc_id, metadata |-> metadata]), raised |-> FALSE]

\* collection.add(ids=[doc_id], metadatas=[metadata], documents=[...]):
\* [store, raised].  For an id already present the library either raises,
\* keeps the old record, or replaces it, depending on the build.
CollectionAdd(st, mode, doc_id, metadata) ==
    IF doc_id \notin Ids(st)
    THEN [store |-> Append(st, [id |-> doc_id, metadata |-> metadata]), raised |-> FALSE]
    ELSE IF mode = "raise" THEN [store |-> st, raised |-> TRUE]
    ELSE IF mode = "ignore" THEN [store |-> st, raised |-> FALSE]
    ELSE [store |-> CollectionUpdate(st, doc_id, metadata), raised |-> FALSE]

----------------------------------------------------------------------------
(* src/utils_db.py                                                         *)

\* f"{project_name}_{os.path.basename(image_path)}"
DocId(project_name, image_path) == project_name \o <<"_">> \o Basename(image_path)

\* ",".join(list(set(project_tags + descriptive_tags))): one string per order
AllTagsStrings(project_tags, descriptive_tags) ==
    {Join(o) : o \in Orders(ListSet(project_tags \o descriptive_tags))}

\* The outcomes of add_screenshot_to_db: [store, ret, raised]
add_screenshot_to_db(st, fs, mode, image_path, project_name, project_tags, image_data) ==
    LET doc_id == DocId(project_name, image_path)
        company_name == Get(image_data, "company_name", "")
        product_category == Get(image_data, "product_category", "")
        descriptive_tags == Get(image_data, "descriptive_tags", <<>>)
        Metadata(all_tags) ==
            [project_name |-> project_name,
             file_path |-> image_path,
             company_name |-> company_name,
             product_category |-> product_category,
             project_tags |-> Join(project_tags),
             descriptive_tags |-> Join(descriptive_tags),
             all_tags |-> all_tags]
    IN  IF image_path \notin fs
        THEN {[store |-> st, ret |-> <<>>, raised |-> TRUE]}    \* Image.open raises
        ELSE {LET r == CollectionAdd(st, mode, doc_id, Metadata(a))
              IN [store |-> r.store,
                  ret |-> IF r.raised THEN <<>> ELSE doc_id,
                  raised |-> r.raised] :
                a \in AllTagsStrings(project_tags, descriptive_tags)}

\* get_all_screenshots
get_all_screenshots(st) ==
    [i \in DOMAIN st |->
        LET m == st[i].metadata IN
        [id |-> st[i].id,
         path |-> m.file_path,
         project |-> m.project_name,
         company_name |-> m.company_name,
         product_category |-> m.product_category,
         project_tags |-> Split(m.project_tags),
         descriptive_tags |-> GuardedSplit(m.descriptive_tags),
         image_tags |-> GuardedSplit(m.descriptive_tags)]]

\* an update that reports success for an unknown id
UpdateMissingTrue(st) == {[store |-> st, ret |-> TRUE]}

\* update_screenshot_metadata 140-141: the id is unknown
UpdateMissing(st) == {[store |-> st, ret |-> FALSE]}

\* an update that forgets to store the new descriptive tags
UpdatedMetadataKeepsTags(existing_metadata, new_data, all_tags) ==
    [existing_metadata EXCEPT
        !.company_name = Get(new_data, "company_name", ""),
        !.product_category = Get(new_data, "product_category", ""),
        !.all_tags = all_tags]

\* update_screenshot_metadata 146-155: the metadata written back
UpdatedMetadata(existing_metadata, new_data, all_tags) ==
    [existing_metadata EXCEPT
        !.company_name = Get(new_data, "company_name", ""),
        !.product_category = Get(new_data, "product_category", ""),
        !.descriptive_tags = Join(Get(new_data, "descriptive_tags", <<>>)),
        !.all_tags = all_tags]

\* The outcomes of update_screenshot_metadata: [store, ret]
update_screenshot_metadata(st, doc_id, new_data) ==
    LET result == GetById(st, doc_id) IN
    IF result = <<>> THEN UpdateMissing(st)
    ELSE
        LET existing_metadata == result[1].metadata
            descriptive_tags == Get(new_data, "descriptive_tags", <<>>)
            project_tags == Split(existing_metadata.project_tags)
        IN {[store |-> CollectionUpdate(st, doc_id,
                          UpdatedMetadata(existing_metadata, new_data, a)),
             ret |-> TRUE] :
               a \in AllTagsStrings(project_tags, descriptive_tags)}

\* a project-tag update that leaves all_tags as it was
NewProjectMetadataStale(metadata, new_project_tags) ==
    {[metadata EXCEPT !.project_tags = Join(new_project_tags)]}

\* the metadata update_project_tags writes for one screenshot, one per order
NewProjectMetadata(metadata, new_project_tags) ==
    LET descriptive_tags == GuardedSplit(metadata.descriptive_tags) IN
    {[metadata EXCEPT !.project_tags = Join(new_project_tags), !.all_tags = a] :
        a \in AllTagsStrings(new_project_tags, descriptive_tags)}

\* the stores after the loop of update_project_tags has written the first k results
RECURSIVE WriteProjectTags(_, _, _, _)
WriteProjectTags(st, results, new_project_tags, k) ==
    IF k = 0 THEN {st}
    ELSE {CollectionUpdate(s, results[k].id, m) :
            s \in WriteProjectTags(st, results, new_project_tags, k - 1),
            m \in NewProjectMetadata(results[k].metadata, new_project_tags)}

\* what update_project_tags returns when collection.update raised after k writes
ReturnOnFailure(k) == 0

\* The outcomes of update_project_tags: [store, ret, written, failed].
\* collection.update may raise at any iteration; the except branch returns 0.
update_project_tags(st, project_name, new_project_tags) ==
    LET results == GetWhereProject(st, project_name)
        n == Len(results)
    IN  IF results = <<>>
        THEN {[store |-> st, ret |-> 0, written |-> 0, failed |-> FALSE]}
        ELSE {[store |-> s, ret |-> n, written |-> n, failed |-> FALSE] :
                s \in WriteProjectTags(st, results, new_project_tags, n)}
             \cup
             UNION {{[store |-> s, ret |-> ReturnOnFailure(k), written |-> k,
                      failed |-> TRUE] :
                        s \in WriteProjectTags(st, results, new_project_tags, k)} :
                    k \in 0..(n - 1)}

\* os.remove without the os.path.exists test: an absent file raises, and the
\* except branch returns False
RemoveFileUnguarded(st, fs, file_path) ==
    [store |-> st,
     files |-> fs \ {file_path},
     ret |-> file_path \in fs,
     existed |-> file_path \in fs]

\* delete_screenshot 233-238: the record is gone, the file goes if it exists
RemoveFile(st, fs, file_path) ==
    [store |-> st,
     files |-> IF file_path \in fs THEN fs \ {file_path} ELSE fs,
     ret |-> TRUE,
     existed |-> file_path \in fs]

\* delete_screenshot: [store, files, ret, existed]
delete_screenshot(st, fs, doc_id) ==
    LET result == GetById(st, doc_id) IN
    IF result # <<>>
    THEN LET file_path == result[1].metadata.file_path IN
         RemoveFile(CollectionDelete(st, {doc_id}), fs, file_path)
    ELSE [store |-> st, files |-> fs, ret |-> FALSE, existed |-> FALSE]

\* a delete_project that deletes only the first record it found
delete_project_first(st, fs, project_name) ==
    LET results == GetWhereProject(st, project_name) IN
    IF results # <<>>
    THEN [store |-> CollectionDelete(st, {results[1].id}),
          files |-> {f \in fs : ~IsUnder(f, ProjectFolder(project_name))},
          ret |-> Len(results)]
    ELSE [store |-> st, files |-> fs, ret |-> 0]

\* delete_project: [store, files, ret]
delete_project(st, fs, project_name) ==
    LET results == GetWhereProject(st, project_name) IN
    IF results # <<>>
    THEN [store |-> CollectionDelete(st, Ids(results)),
          files |-> {f \in fs : ~IsUnder(f, ProjectFolder(project_name))},
          ret |-> Len(results)]
    ELSE [store |-> st, files |-> fs, ret |-> 0]

----------------------------------------------------------------------------
(* src/utils_search.py                                                     *)

\* n_results after lines 20-21 / 76-77
EffectiveLimit(n_results) ==
    IF n_results = None THEN DEFAULT_SEARCH_RESULTS ELSE n_results[1]

\* lines 26-28 / 82-84: the where clause, None when nothing is filtered
WhereClause(project_filter) ==
    IF project_filter # <<>> /\ project_filter # AllProjects
    THEN <<project_filter>> ELSE None

\* collection.get(where=where) and the candidates of collection.query(where=where)
GetWhere(st, where) ==
    IF where = None THEN st ELSE GetWhereProject(st, where[1])

\* the dict built for one result (lines 43-52, 102-112)
ResultDict(e) ==
    LET m == e.metadata IN
    [id |-> e.id,
     path |-> m.file_path,
     project |-> m.project_name,
     company_name |-> m.company_name,
     product_category |-> m.product_category,
     project_tags |-> GuardedSplit(m.project_tags),
     descriptive_tags |-> GuardedSplit(m.descriptive_tags),
     image_tags |-> GuardedSplit(m.descriptive_tags)]

\* collection.query(query_texts=[query], n_results=n, where=where): the n
\* nearest candidates, nearest first; the embedding decides which and in
\* what order.  n < 1 raises.
CollectionQuery(st, n, where) ==
    LET cand == GetWhere(st, where)
        k == IF n < Len(cand) THEN n ELSE Len(cand)
    IN  {[j \in 1..k |-> cand[f[j]]] :
            f \in {g \in [1..k -> DOMAIN cand] :
                    \A a, b \in 1..k : a # b => g[a] # g[b]}}

\* search_screenshots: the possible result lists
search_screenshots(st, query, n_results, project_filter) ==
    LET n == EffectiveLimit(n_results)
        where_clause == WhereClause(project_filter)
    IN  IF n < 1 THEN {<<>>}       \* collection.query raises, the except returns []
        ELSE {[j \in DOMAIN r |-> ResultDict(r[j])] :
                r \in CollectionQuery(st, n, where_clause)}

\* search_by_tags: the result list
search_by_tags(st, tag_query, n_results, project_filter) ==
    LET n == EffectiveLimit(n_results)
        results == GetWhere(st, WhereClause(project_filter))
        tag_query_lower == Lower(tag_query)
        matching == SelectSeq(results,
                        LAMBDA e : Contains(tag_query_lower, Lower(e.metadata.all_tags)))
    IN  Prefix([j \in DOMAIN matching |-> ResultDict(matching[j])], n)

----------------------------------------------------------------------------
(* json.loads                                                              *)
(* A Python value is [t |-> type, v |-> content]: a dict is a function     *)
(* from keys to values, a list a sequence, a str a sequence of characters. *)

PyDict(f) == [t |-> "dict", v |-> f]
PyList(l) == [t |-> "list", v |-> l]
PyStr(c)  == [t |-> "str", v |-> c]
PyInt(n)  == [t |-> "int", v |-> n]
PyConst(w) == [t |-> "const", v |-> w]
\* {}
EmptyMapping == PyDict(<<>>)

\* the outcome of a failed scan
Fail == [ok |-> FALSE, val |-> <<>>, next |-> 0]
Ok(val, next) == [ok |-> TRUE, val |-> val, next |-> next]

\* the whitespace json skips between tokens
JsonWs == {" ", "\t", "\n", "\r"}

RECURSIVE SkipWs(_, _)
SkipWs(s, i) == IF i <= Len(s) /\ s[i] \in JsonWs THEN SkipWs(s, i + 1) ELSE i

\* the character after a backslash and what it stands for (\b and \uXXXX
\* do not occur in the texts)
Unescape ==
    ("\"" :> "\"") @@ ("\\" :> "\\") @@ ("/" :> "/") @@
    ("n" :> "\n") @@ ("t" :> "\t") @@ ("r" :> "\r") @@ ("f" :> "\f")

\* characters a JSON string may not hold unescaped
Control == {"\n", "\t", "\r", "\f"}

\* the string whose opening quote is before position i
RECURSIVE ScanString(_, _, _)
ScanString(s, i, acc) ==
    IF i > Len(s) THEN Fail
    ELSE IF s[i] = "\"" THEN Ok(PyStr(acc), i + 1)
    ELSE IF s[i] = "\\"
         THEN IF i + 1 <= Len(s) /\ s[i + 1] \in DOMAIN Unescape
              THEN ScanString(s, i + 2, Append(acc, Unescape[s[i + 1]]))
              ELSE Fail
    ELSE IF s[i] \in Control THEN Fail
    ELSE ScanString(s, i + 1, Append(acc, s[i]))

DigitValue ==
    ("0" :> 0) @@ ("1" :> 1) @@ ("2" :> 2) @@ ("3" :> 3) @@ ("4" :> 4) @@
    ("5" :> 5) @@ ("6" :> 6) @@ ("7" :> 7) @@ ("8" :> 8) @@ ("9" :> 9)

RECURSIVE ScanDigits(_, _, _)
ScanDigits(s, i, acc) ==
    IF i <= Len(s) /\ s[i] \in DOMAIN DigitValue
    THEN ScanDigits(s, i + 1, 10 * acc + DigitValue[s[i]])
    ELSE Ok(PyInt(acc), i)

\* an integer: 0, or a digit from 1 to 9 and more digits (the texts hold no
\* sign, fraction or exponent)
ScanNumber(s, i) ==
    IF s[i] = "0" THEN Ok(PyInt(0), i + 1) ELSE ScanDigits(s, i, 0)

\* null, true, false
ScanConst(s, i) ==
    LET words == {<<"n", "u", "l", "l">>, <<"t", "r", "u", "e">>,
                  <<"f", "a", "l", "s", "e">>}
        found == {w \in words : i + Len(w) - 1 <= Len(s)
                                 /\ SubSeq(s, i, i + Len(w) - 1) = w}
    IN  IF found = {} THEN Fail
        ELSE LET w == CHOOSE x \in found : TRUE IN Ok(PyConst(w), i + Len(w))

RECURSIVE ScanValue(_, _)
RECURSIVE ScanMembers(_, _, _)
RECURSIVE ScanElements(_, _, _)

\* the pairs of an object from position i, where a key has to start
ScanMembers(s, i, acc) ==
    IF i > Len(s) \/ s[i] # "\"" THEN Fail
    ELSE
        LET key == ScanString(s, i + 1, <<>>) IN
        IF ~key.ok THEN Fail
        ELSE
            LET colon == SkipWs(s, key.next) IN
            IF colon > Len(s) \/ s[colon] # ":" THEN Fail
            ELSE
                LET value == ScanValue(s, SkipWs(s, colon + 1)) IN
                IF ~value.ok THEN Fail
                ELSE
                    LET after == SkipWs(s, value.next)
                        pairs == (key.val.v :> value.val) @@ acc
                    IN  IF after > Len(s) THEN Fail
                        ELSE IF s[after] = "}" THEN Ok(PyDict(pairs), after + 1)
                        ELSE IF s[after] = ","
                             THEN ScanMembers(s, SkipWs(s, after + 1), pairs)
                        ELSE Fail

\* the elements of an array from position i, where a value has to start
ScanElements(s, i, acc) ==
    LET value == ScanValue(s, i) IN
    IF ~value.ok THEN Fail
    ELSE
        LET after == SkipWs(s, value.next)
            elements == Append(acc, value.val)
        IN  IF after > Len(s) THEN Fail
            ELSE IF s[after] = "]" THEN Ok(PyList(elements), after + 1)
            ELSE IF s[after] = ","
                 THEN ScanElements(s, SkipWs(s, after + 1), elements)
            ELSE Fail

\* the value that starts at position i
ScanValue(s, i) ==
    IF i > Len(s) THEN Fail
    ELSE IF s[i] = "\"" THEN ScanString(s, i + 1, <<>>)
    ELSE IF s[i] = "{"
         THEN LET j == SkipWs(s, i + 1) IN
              IF j <= Len(s) /\ s[j] = "}" THEN Ok(EmptyMapping, j + 1)
              ELSE ScanMembers(s, j, <<>>)
    ELSE IF s[i] = "["
         THEN LET j == SkipWs(s, i + 1) IN
              IF j <= Len(s) /\ s[j] = "]" THEN Ok(PyList(<<>>), j + 1)
              ELSE ScanElements(s, j, <<>>)
    ELSE IF s[i] \in DOMAIN DigitValue THEN ScanNumber(s, i)
    ELSE ScanConst(s, i)

\* json.loads(s): [ok, val]; ok is FALSE where json.loads raises
JsonLoads(s) ==
    LET r == ScanValue(s, SkipWs(s, 1)) IN
    IF r.ok /\ SkipWs(s, r.next) = Len(s) + 1
    THEN [ok |-> TRUE, val |-> r.val]
    ELSE [ok |-> FALSE, val |-> <<>>]

----------------------------------------------------------------------------
(* src/utils_tagging.py                                                    *)

\* lines 45-68: the position of the "}" that brings the depth back to 0 in a
\* scan that starts at the "{" at position start, 0 when the text ends first
RECURSIVE ScanBlock(_, _, _, _, _)
ScanBlock(text, i, depth, in_str, esc) ==
    IF i > Len(text) THEN 0
    ELSE
        LET ch == text[i] IN
        IF in_str
        THEN IF esc THEN ScanBlock(text, i + 1, depth, TRUE, FALSE)
             ELSE IF ch = "\\" THEN ScanBlock(text, i + 1, depth, TRUE, TRUE)
             ELSE IF ch = "\"" THEN ScanBlock(text, i + 1, depth, FALSE, FALSE)
             ELSE ScanBlock(text, i + 1, depth, TRUE, FALSE)
        ELSE IF ch = "\"" THEN ScanBlock(text, i + 1, depth, TRUE, esc)
             ELSE IF ch = "{" THEN ScanBlock(text, i + 1, depth + 1, FALSE, esc)
             ELSE IF ch = "}"
                  THEN IF depth - 1 = 0 THEN i
                       ELSE ScanBlock(text, i + 1, depth - 1, FALSE, esc)
             ELSE ScanBlock(text, i + 1, depth, FALSE, esc)

\* a scan that gives up at the first block that does not parse
NextStartAborts(text, start) == 0

\* line 69: where the scan resumes after the block at start gave nothing
NextStart(text, start) == Find(text, <<"{">>, start + 1)

\* lines 40-70: the loop over the "{" of the text, from the one at start
RECURSIVE ExtractFrom(_, _)
ExtractFrom(text, start) ==
    IF start = 0 THEN EmptyMapping
    ELSE
        LET end == ScanBlock(text, start, 0, FALSE, FALSE)
            candidate == JsonLoads(SubSeq(text, start, end))
        IN  IF end # 0 /\ candidate.ok THEN candidate.val
            ELSE ExtractFrom(text, NextStart(text, start))

\* _extract_first_json_object
extract_first_json_object(text) ==
    IF text = <<>> THEN EmptyMapping
    ELSE ExtractFrom(text, Find(text, <<"{">>, 1))

FenceJson == <<Tick, Tick, Tick, "j", "s", "o", "n">>
Fence == <<Tick, Tick, Tick>>

\* lines 103 and 110: the text between the opening fence and the next fence
Fenced(response_text, opening) == Strip(BeforeFirst(AfterFirst(response_text, opening), Fence))

\* parse_json_response: the value returned (no path of it raises)
parse_json_response(response_text) ==
    IF response_text = <<>> THEN EmptyMapping
    ELSE IF JsonLoads(response_text).ok THEN JsonLoads(response_text).val
    ELSE IF Find(response_text, FenceJson, 1) # 0
            /\ JsonLoads(Fenced(response_text, FenceJson)).ok
         THEN JsonLoads(Fenced(response_text, FenceJson)).val
    ELSE IF Find(response_text, Fence, 1) # 0
            /\ JsonLoads(Fenced(response_text, Fence)).ok
         THEN JsonLoads(Fenced(response_text, Fence)).val
    ELSE extract_first_json_object(response_text)

----------------------------------------------------------------------------
(* src/tag_normalization.py                                                *)

\* CANONICAL_CATEGORIES as shipped
CANONICAL_CATEGORIES ==
    <<<<"a", "i", "/", "m", "l", " ", "d", "e", "v", "e", "l", "o", "p", "e", "r", " ", "p", "l", "a", "t", "f", "o", "r", "m">>,
      <<"d", "e", "v", "e", "l", "o", "p", "e", "r", " ", "t", "o", "o", "l", "s", " ", "p", "l", "a", "t", "f", "o", "r", "m">>,
      <<"m", "o", "b", "i", "l", "e", " ", "b", "a", "n", "k", "i", "n", "g", " ", "a", "p", "p">>,
      <<"e", "-", "c", "o", "m", "m", "e", "r", "c", "e", " ", "p", "l", "a", "t", "f", "o", "r", "m">>,
      <<"s", "o", "c", "i", "a", "l", " ", "m", "e", "d", "i", "a", " ", "a", "p", "p">>,
      <<"f", "i", "t", "n", "e", "s", "s", " ", "t", "r", "a", "c", "k", "e", "r">>,
      <<"h", "e", "a", "l", "t", "h", "c", "a", "r", "e", " ", "p", "l", "a", "t", "f", "o", "r", "m">>,
      <<"p", "r", "o", "d", "u", "c", "t", "i", "v", "i", "t", "y", " ", "a", "p", "p">>,
      <<"e", "d", "u", "c", "a", "t", "i", "o", "n", "a", "l", " ", "p", "l", "a", "t", "f", "o", "r", "m">>>>

\* SIMILARITY_THRESHOLD = 0.85, as numerator and denominator
SIMILARITY_THRESHOLD == <<17, 20>>

\* the canonical lists a configuration may hold: the shipped one, none, and
\* short ones in both orders; every entry is lower-case, as the shipped
\* list, add_canonical_category and the settings page of app.py keep them
CanonicalLists ==
    { CANONICAL_CATEGORIES,
      <<>>,
      <<<<"b">>>>,
      <<<<"a", "b">>>>,
      <<<<"a", "b">>, <<"b", "a">>>>,
      <<<<"b", "a">>, <<"a", "b">>>>,
      <<<<"a", " ", "b">>, <<"b", "b">>, <<"a", "b">>>> }

\* the length of the common run of a from i and b from j, inside the windows
RECURSIVE RunLength(_, _, _, _, _, _)
RunLength(a, i, ahi, b, j, bhi) ==
    IF i <= ahi /\ j <= bhi /\ a[i] = b[j]
    THEN 1 + RunLength(a, i + 1, ahi, b, j + 1, bhi)
    ELSE 0

\* SequenceMatcher.find_longest_match: the longest common block of
\* a[alo..ahi] and b[blo..bhi]; of the longest ones the earliest in a, and of
\* those the earliest in b.  [i, j, size], size 0 when nothing matches.
FindLongestMatch(a, alo, ahi, b, blo, bhi) ==
    LET size(p) == RunLength(a, p[1], ahi, b, p[2], bhi)
        pairs == {p \in (alo..ahi) \X (blo..bhi) : a[p[1]] = b[p[2]]}
    IN  IF pairs = {} THEN [i |-> alo, j |-> blo, size |-> 0]
        ELSE LET best == CHOOSE p \in pairs :
                            \A q \in pairs :
                                \/ size(p) > size(q)
                                \/ size(p) = size(q) /\ p[1] < q[1]
                                \/ size(p) = size(q) /\ p[1] = q[1] /\ p[2] <= q[2]
             IN  [i |-> best[1], j |-> best[2], size |-> size(best)]

\* the total size of SequenceMatcher.get_matching_blocks: the longest block,
\* then the same to its left and to its right
RECURSIVE Matches(_, _, _, _, _, _)
Matches(a, alo, ahi, b, blo, bhi) ==
    IF alo > ahi \/ blo > bhi THEN 0
    ELSE LET m == FindLongestMatch(a, alo, ahi, b, blo, bhi) IN
         IF m.size = 0 THEN 0
         ELSE m.size
              + Matches(a, alo, m.i - 1, b, blo, m.j - 1)
              + Matches(a, m.i + m.size, ahi, b, m.j + m.size, bhi)

\* a <= b for fractions
AtMost(x, y) == x[1] * y[2] <= y[1] * x[2]

\* a >= b and a > b for fractions <<numerator, denominator>>
AtLeast(x, y) == x[1] * y[2] >= y[1] * x[2]
MoreThan(x, y) == x[1] * y[2] > y[1] * x[2]

\* similarity_ratio(a, b): SequenceMatcher(None, a.lower(), b.lower()).ratio()
\* = 2 * matches / (len(a) + len(b)), and 1 for two empty strings
similarity_ratio(a, b) ==
    IF Len(a) + Len(b) = 0 THEN <<1, 1>>
    ELSE <<2 * Matches(Lower(a), 1, Len(a), Lower(b), 1, Len(b)), Len(a) + Len(b)>>

\* the value None
PyNone == [t |-> "none", v |-> <<>>]

\* lines 56-63: best_match and best_score after the first k entries
RECURSIVE BestAfter(_, _, _)
BestAfter(category, canonical, k) ==
    IF k = 0 THEN [best_match |-> PyNone, best_score |-> <<0, 1>>]
    ELSE LET prev == BestAfter(category, canonical, k - 1)
             score == similarity_ratio(category, canonical[k])
         IN  IF MoreThan(score, prev.best_score)
             THEN [best_match |-> PyStr(canonical[k]), best_score |-> score]
             ELSE prev

\* an exact match that returns the candidate as it was typed
ExactMatchAsTyped(category) == PyStr(category)

\* line 53: what the exact match returns
ExactMatch(category) == PyStr(Lower(category))

\* normalize_category(category, threshold) with CANONICAL_CATEGORIES =
\* canonical: [normalized, is_new]
normalize_category(category, threshold, canonical) ==
    LET limit == IF threshold = None THEN SIMILARITY_THRESHOLD ELSE threshold
        category_lower == Lower(category)
        best == BestAfter(category, canonical, Len(canonical))
    IN  IF category = <<>> THEN [normalized |-> PyStr(<<>>), is_new |-> FALSE]
        ELSE IF \E k \in DOMAIN canonical : Lower(canonical[k]) = category_lower
             THEN [normalized |-> ExactMatch(category), is_new |-> FALSE]
        ELSE IF AtLeast(best.best_score, limit)
             THEN [normalized |-> best.best_match, is_new |-> FALSE]
        ELSE [normalized |-> PyStr(category_lower), is_new |-> TRUE]

----------------------------------------------------------------------------
(* src/utils_tagging.py, continued                                         *)

\* lines 130, 135-138, 152: the keys tried for each field, in the order of
\* the or-chain
Aliases ==
    [company_name |->
        <<<<"c", "o", "m", "p", "a", "n", "y", "_", "n", "a", "m", "e">>,
          <<"c", "o", "m", "p", "a", "n", "y">>,
          <<"b", "r", "a", "n", "d">>,
          <<"b", "r", "a", "n", "d", "_", "n", "a", "m", "e">>>>,
     product_category |->
        <<<<"p", "r", "o", "d", "u", "c", "t", "_", "c", "a", "t", "e", "g", "o", "r", "y">>,
          <<"c", "a", "t", "e", "g", "o", "r", "y">>,
          <<"p", "r", "o", "d", "u", "c", "t", "_", "t", "y", "p", "e">>,
          <<"a", "p", "p", "_", "t", "y", "p", "e">>>>,
     descriptive_tags |->
        <<<<"d", "e", "s", "c", "r", "i", "p", "t", "i", "v", "e", "_", "t", "a", "g", "s">>,
          <<"t", "a", "g", "s">>,
          <<"f", "e", "a", "t", "u", "r", "e", "_", "t", "a", "g", "s">>>>]

\* the fields of the strict schema
Fields == DOMAIN Aliases

\* bool(v)
Truthy(v) ==
    CASE v.t = "none" -> FALSE
      [] v.t = "const" -> v.v = <<"t", "r", "u", "e">>
      [] v.t = "int" -> v.v # 0
      [] v.t = "dict" -> DOMAIN v.v # {}
      [] OTHER -> v.v # <<>>

\* d.get(key)
DictGet(d, key) == IF key \in DOMAIN d.v THEN d.v[key] ELSE PyNone

\* an or-chain that takes the value of the first key that is present
RECURSIVE OrChainFirstPresent(_, _, _)
OrChainFirstPresent(d, keys, default) ==
    IF keys = <<>> THEN default
    ELSE IF Head(keys) \in DOMAIN d.v THEN d.v[Head(keys)]
    ELSE OrChainFirstPresent(d, Tail(keys), default)

\* d.get(k1) or d.get(k2) or ... or default
RECURSIVE OrChain(_, _, _)
OrChain(d, keys, default) ==
    IF keys = <<>> THEN default
    ELSE IF Truthy(DictGet(d, Head(keys))) THEN DictGet(d, Head(keys))
    ELSE OrChain(d, Tail(keys), default)

\* line 131: company.strip() if isinstance(company, str) else ""
FinishCompany(company) ==
    IF company.t = "str" THEN PyStr(Strip(company.v)) ELSE PyStr(<<>>)

\* lines 141-149: a str is stripped and, when something is left, replaced by
\* its normalized form; any other value becomes ""
FinishCategory(category) ==
    IF category.t = "str"
    THEN LET stripped == Strip(category.v) IN
         IF stripped # <<>>
         THEN normalize_category(stripped, None, CANONICAL_CATEGORIES).normalized
         ELSE PyStr(stripped)
    ELSE PyStr(<<>>)

\* lines 153-156: a str is split at the commas into its stripped, non-empty
\* pieces; a list is kept; any other value becomes []
FinishTags(tags) ==
    IF tags.t = "str"
    THEN LET pieces == SelectSeq(Split(tags.v), LAMBDA t : Strip(t) # <<>>) IN
         PyList([k \in DOMAIN pieces |-> PyStr(Strip(pieces[k]))])
    ELSE IF tags.t = "list" THEN tags
    ELSE PyList(<<>>)

\* what a field's picked value is turned into
Finish(field, v) ==
    CASE field = "company_name" -> FinishCompany(v)
      [] field = "product_category" -> FinishCategory(v)
      [] field = "descriptive_tags" -> FinishTags(v)

\* the last operand of a field's or-chain
Default(field) == IF field = "descriptive_tags" THEN PyList(<<>>) ELSE PyStr(<<>>)

\* _normalize_keys(d)
normalize_keys(d) ==
    IF d.t # "dict"
    THEN [field \in Fields |-> Default(field)]
    ELSE [field \in Fields |->
            Finish(field, OrChain(d, Aliases[field], Default(field)))]

\* config.MAX_TAGS_PER_IMAGE and config.MAX_PROJECT_TAGS
MAX_TAGS_PER_IMAGE == 10
MAX_PROJECT_TAGS == 8

\* s.replace(old, new) for one-character old and new
Replace(s, old, new) == [i \in DOMAIN s |-> IF s[i] = old THEN new ELSE s[i]]

\* client.messages.create raised
ApiError == [raised |-> TRUE, text |-> <<>>]
\* client.messages.create returned, _extract_text_from_response gives text
\* and parse_json_response gives parsed (239-240, 315-316)
Reply(text) == [raised |-> FALSE, text |-> text, parsed |-> parse_json_response(text)]

\* what the model call of the project-tag stage does: it raises, or answers
\* with a tag list, with text that holds no JSON, with an empty tag list, or
\* with JSON that is no object
ProjectReplies ==
    { ApiError,
      Reply(<<"{", "\"", "p", "r", "o", "j", "e", "c", "t", "_", "t", "a", "g", "s", "\"", ":", "[", "\"", "a", "\"", "]", "}">>),
      Reply(<<"x">>),
      Reply(<<"{", "\"", "p", "r", "o", "j", "e", "c", "t", "_", "t", "a", "g", "s", "\"", ":", "[", "]", "}">>),
      Reply(<<"[", "1", "]">>) }

\* what the model call for one image does: it raises, or answers with every
\* field under an alias, or with the category only
ImageReplies ==
    { ApiError,
      Reply(<<"{", "\"", "c", "o", "m", "p", "a", "n", "y", "\"", ":", "\"", "A", "c", "m", "e", "\"", ",", "\"", "c", "a", "t", "e", "g", "o", "r", "y", "\"", ":", "\"", "C", "r", "m", "\"", "}">>),
      Reply(<<"{", "\"", "c", "a", "t", "e", "g", "o", "r", "y", "\"", ":", "\"", "c", "r", "m", "\"", "}">>) }

\* a Python str as the sequence of its characters; other values stay tagged
Plain(v) == IF v.t = "str" THEN v.v ELSE v

\* generate_project_tags 252-256: the tags returned from the except branch
FallbackTags(project_name) ==
    LET base == IF project_name # <<>>
                THEN Replace(Strip(Lower(project_name)), " ", "-")
                ELSE <<"p", "r", "o", "j", "e", "c", "t">>
    IN  <<base,
          <<"u", "i", " ", "d", "e", "s", "i", "g", "n">>,
          <<"i", "n", "t", "e", "r", "f", "a", "c", "e">>>>

\* the model call raised, or its answer holds no project tag
NoProjectTags(response) ==
    \/ response.raised
    \/ LET result == response.parsed
           key == <<"p", "r", "o", "j", "e", "c", "t", "_", "t", "a", "g", "s">>
       IN  \/ result.t # "dict"
           \/ key \notin DOMAIN result.v
           \/ result.v[key].v = <<>>

\* generate_project_tags(image_paths, project_name), given what the model
\* call does; result.get on a value that is no dict raises inside the try
generate_project_tags(image_paths, project_name, response) ==
    IF image_paths = <<>> THEN <<>>
    ELSE IF response.raised THEN FallbackTags(project_name)
    ELSE
        LET result == response.parsed
            key == <<"p", "r", "o", "j", "e", "c", "t", "_", "t", "a", "g", "s">>
        IN  IF result.t # "dict" THEN FallbackTags(project_name)
            ELSE
                LET tags == IF key \in DOMAIN result.v THEN result.v[key]
                            ELSE PyList(<<>>)
                IN  IF tags.t = "str"
                    THEN LET pieces == SelectSeq(Split(tags.v),
                                                 LAMBDA t : Strip(t) # <<>>)
                         IN Prefix([k \in DOMAIN pieces |-> Strip(pieces[k])],
                                   MAX_PROJECT_TAGS)
                    ELSE IF tags.t # "list" THEN <<>>
                    ELSE Prefix([k \in DOMAIN tags.v |-> Plain(tags.v[k])],
                                MAX_PROJECT_TAGS)

\* generate_image_tags 331: the record returned from the except branch
EmptyImageData ==
    [company_name |-> <<>>, product_category |-> <<>>, descriptive_tags |-> <<>>]

\* generate_image_tags(image_path, project_tags), given what the model call does
generate_image_tags(image_path, project_tags, response) ==
    IF response.raised THEN EmptyImageData
    ELSE
        LET normalized == normalize_keys(response.parsed)
            tags == normalized.descriptive_tags.v
        IN  [company_name |-> Plain(normalized.company_name),
             product_category |-> Plain(normalized.product_category),
             descriptive_tags |->
                Prefix([k \in DOMAIN tags |-> Plain(tags[k])], MAX_TAGS_PER_IMAGE)]

----------------------------------------------------------------------------
(* src/app.py: the upload tab                                              *)

\* ", ".join(list)
RECURSIVE JoinSpaced(_)
JoinSpaced(list) ==
    IF list = <<>> THEN <<>>
    ELSE IF Len(list) = 1 THEN list[1]
    ELSE list[1] \o <<",", " ">> \o JoinSpaced(Tail(list))

\* [tag.strip().lower() for tag in text.split(',') if tag.strip()]
TagsTyped(text) ==
    LET pieces == SelectSeq(Split(text), LAMBDA t : Strip(t) # <<>>) IN
    [k \in DOMAIN pieces |-> Lower(Strip(pieces[k]))]

\* 485-492: final_project_tags when the text area is left as it was filled
final_project_tags(project_tags) == TagsTyped(JoinSpaced(project_tags))

\* 180-185: the paths save_uploaded_files returns
SavedPaths(file_names, project_name) ==
    [k \in DOMAIN file_names |-> SavedPath(project_name, file_names[k])]

\* 535-539: image_data_dict.get(image_path, {...})
CurrentData(image_data_dict, image_path) ==
    IF image_path \in DOMAIN image_data_dict THEN image_data_dict[image_path]
    ELSE EmptyImageData

\* 570-574: what the widgets of one image write back when they show data
Shown(data) ==
    [company_name |-> Strip(data.company_name),
     product_category |-> Lower(Strip(data.product_category)),
     descriptive_tags |-> TagsTyped(JoinSpaced(data.descriptive_tags))]

\* 521-574: the display loop writes an entry for every uploaded file and
\* leaves the other entries alone
RECURSIVE Displayed(_, _, _)
Displayed(image_data_dict, uploaded_files, k) ==
    IF k = 0 THEN image_data_dict
    ELSE LET before == Displayed(image_data_dict, uploaded_files, k - 1)
             image_path == uploaded_files[k]
         IN  (image_path :> Shown(CurrentData(before, image_path))) @@ before

\* 503-507: the entries after the first k images have been tagged
RECURSIVE Tagged(_, _, _, _)
Tagged(uploaded_files, project_tags, responses, k) ==
    IF k = 0 THEN <<>>
    ELSE (uploaded_files[k] :>
            generate_image_tags(uploaded_files[k], project_tags, responses[k]))
         @@ Tagged(uploaded_files, project_tags, responses, k - 1)

\* a gate that looks at the company only
all_valid_company_only(image_data_dict) ==
    \A image_path \in DOMAIN image_data_dict :
        image_data_dict[image_path].company_name # <<>>

\* 578-584: all_valid
all_valid(image_data_dict) ==
    \A image_path \in DOMAIN image_data_dict :
        /\ image_data_dict[image_path].company_name # <<>>
        /\ image_data_dict[image_path].product_category # <<>>

\* 597-612: the outcomes of the commit loop from image k on:
\* [store, added, raised]; a raise of add_screenshot_to_db ends the run
RECURSIVE CommitLoop(_, _, _, _, _, _)
CommitLoop(st, fs, mode, sess, project_tags, k) ==
    IF k > Len(sess.uploaded_files)
    THEN {[store |-> st, added |-> 0, raised |-> FALSE]}
    ELSE UNION {
            IF o.raised THEN {[store |-> st, added |-> 0, raised |-> TRUE]}
            ELSE {[store |-> r.store, added |-> r.added + 1, raised |-> r.raised] :
                    r \in CommitLoop(o.store, fs, mode, sess, project_tags, k + 1)} :
            o \in add_screenshot_to_db(st, fs, mode, sess.uploaded_files[k],
                                       sess.project_name, project_tags,
                                       sess.image_data_dict[sess.uploaded_files[k]])}

\* 617-622 and 630-634: the staged data is dropped and the uploader reset
Cleared(sess) ==
    [sess EXCEPT !.project_tags = <<>>,
                 !.uploaded_files = <<>>,
                 !.image_data_dict = <<>>,
                 !.project_name = <<>>,
                 !.upload_key = sess.upload_key + 1]

----------------------------------------------------------------------------
(* src/utils_db.py, continued                                              *)

\* statistics that count one project per record
get_database_stats_per_record(st) ==
    LET projects == {st[i].metadata.project_name : i \in DOMAIN st} IN
    {[total_images |-> Len(st), total_projects |-> Len(st), projects |-> o] :
        o \in Orders(projects)}

\* get_database_stats: one outcome per order of list(projects)
get_database_stats(st) ==
    LET projects == {st[i].metadata.project_name : i \in DOMAIN st} IN
    {[total_images |-> Len(st), total_projects |-> Cardinality(projects),
      projects |-> o] : o \in Orders(projects)}

\* a delete that removes the file before the record
StepOrderFileFirst == <<"file", "record">>

\* delete_screenshot 231 then 234-235, delete_project 259 then 263-267: the
\* records leave the collection, then the file or the project folder goes
StepOrder == <<"record", "file">>

\* the files a half-done delete has to remove: the record's file if it
\* exists, or everything under the project folder
Targets(p, fs) ==
    IF p.op = "delete_screenshot" THEN {p.target} \cap fs
    ELSE {f \in fs : IsUnder(f, p.target)}

\* one step of a delete: [store, files]
DeleteStep(kind, p, st, fs) ==
    IF kind = "record"
    THEN [store |-> CollectionDelete(st, p.ids), files |-> fs]
    ELSE [store |-> st, files |-> fs \ Targets(p, fs)]

----------------------------------------------------------------------------
(* The state machine                                                       *)

\* no delete is half done
NoPending == [op |-> "none"]

\* the function under study has not been called
NotCalled == [called |-> FALSE]

\* app.py 155-166: st.session_state of a new session
NoSession ==
    [uploaded_files |-> <<>>,
     project_tags |-> <<>>,
     image_data_dict |-> <<>>,
     project_name |-> <<>>,
     processing_complete |-> FALSE,
     upload_key |-> 0]

\* app.py save_uploaded_files: the upload is written under the project folder
SaveUploadedFiles ==
    \E u \in Uploads :
        /\ files' = files \cup {SavedPath(u[1], u[2])}
        /\ last' = [op |-> "save_uploaded_files"]
        /\ UNCHANGED <<store, addMode, pending, input, output, session>>

\* the environment removes a stored image (the library folder is not owned by the store)
FileLost ==
    \E f \in files :
        /\ files' = files \ {f}
        /\ last' = [op |-> "file_lost"]
        /\ UNCHANGED <<store, addMode, pending, input, output, session>>

\* app.py 597-609: add_screenshot_to_db(image_path, project_name, final_project_tags, image_data)
CreateFrom(uploads, tagLists, dicts) ==
    \E u \in uploads, project_tags \in tagLists, image_data \in dicts :
        \E o \in add_screenshot_to_db(store, files, addMode, SavedPath(u[1], u[2]),
                                      u[1], project_tags, image_data) :
            /\ store' = o.store
            /\ last' = [op |-> "add_screenshot_to_db", project_name |-> u[1],
                        file_name |-> u[2], ret |-> o.ret, raised |-> o.raised,
                        existed |-> DocId(u[1], SavedPath(u[1], u[2])) \in Ids(store)]
            /\ UNCHANGED <<files, addMode, pending, input, output, session>>

\* the commit of a batch drawn from Uploads
Create(tagLists, dicts) == CreateFrom(Uploads, tagLists, dicts)

\* app.py 327-339
UpdateMetadata ==
    \E u \in Uploads, new_data \in DataDicts :
        LET doc_id == DocId(u[1], u[2]) IN
        \E o \in update_screenshot_metadata(store, doc_id, new_data) :
            /\ store' = o.store
            /\ last' = [op |-> "update_screenshot_metadata", doc_id |-> doc_id,
                        ret |-> o.ret]
            /\ UNCHANGED <<files, addMode, pending, input, output, session>>

\* app.py 668-675
UpdateProjectTags ==
    \E project_name \in ProjectNames, new_project_tags \in ProjectTagLists :
        \E o \in update_project_tags(store, project_name, new_project_tags) :
            /\ store' = o.store
            /\ last' = [op |-> "update_project_tags", project_name |-> project_name,
                        new_project_tags |-> new_project_tags, ret |-> o.ret,
                        written |-> o.written, failed |-> o.failed]
            /\ UNCHANGED <<files, addMode, pending, input, output, session>>

\* app.py 344-349
Delete ==
    \E u \in Uploads :
        LET doc_id == DocId(u[1], u[2])
            o == delete_screenshot(store, files, doc_id)
        IN  /\ store' = o.store
            /\ files' = o.files
            /\ last' = [op |-> "delete_screenshot", doc_id |-> doc_id, ret |-> o.ret,
                        existed |-> o.existed]
            /\ UNCHANGED <<addMode, pending, input, output, session>>

\* app.py 408-411
DeleteProject ==
    \E project_name \in ProjectNames :
        LET o == delete_project(store, files, project_name) IN
            /\ store' = o.store
            /\ files' = o.files
            /\ last' = [op |-> "delete_project", project_name |-> project_name,
                        ret |-> o.ret]
            /\ UNCHANGED <<addMode, pending, input, output, session>>

\* delete_screenshot 224-231, up to and including the first of its two steps
DeleteBegin ==
    /\ pending = NoPending
    /\ \E u \in Uploads :
        LET doc_id == DocId(u[1], u[2])
            result == GetById(store, doc_id)
        IN  IF result = <<>>
            THEN /\ last' = [op |-> "delete_screenshot", kind |-> "none",
                             target |-> <<>>, removed |-> {}]
                 /\ UNCHANGED <<store, files, pending, session>>
            ELSE LET p == [op |-> "delete_screenshot", ids |-> {doc_id},
                           target |-> result[1].metadata.file_path]
                     o == DeleteStep(StepOrder[1], p, store, files)
                 IN  /\ store' = o.store
                     /\ files' = o.files
                     /\ pending' = p
                     /\ last' = [op |-> p.op, kind |-> StepOrder[1],
                                 target |-> p.target, removed |-> files \ o.files]
    /\ UNCHANGED <<addMode, input, output, session>>

\* delete_project 254-259, up to and including the first of its two steps
DeleteProjectBegin ==
    /\ pending = NoPending
    /\ \E project_name \in ProjectNames :
        LET results == GetWhereProject(store, project_name) IN
        IF results = <<>>
        THEN /\ last' = [op |-> "delete_project", kind |-> "none",
                         target |-> <<>>, removed |-> {}]
             /\ UNCHANGED <<store, files, pending, session>>
        ELSE LET p == [op |-> "delete_project", ids |-> Ids(results),
                       target |-> ProjectFolder(project_name)]
                 o == DeleteStep(StepOrder[1], p, store, files)
             IN  /\ store' = o.store
                 /\ files' = o.files
                 /\ pending' = p
                 /\ last' = [op |-> p.op, kind |-> StepOrder[1],
                             target |-> p.target, removed |-> files \ o.files]
    /\ UNCHANGED <<addMode, input, output, session>>

\* delete_screenshot 233-238, delete_project 261-269: the second step
DeleteEnd ==
    /\ pending # NoPending
    /\ LET o == DeleteStep(StepOrder[2], pending, store, files) IN
        /\ store' = o.store
        /\ files' = o.files
        /\ last' = [op |-> pending.op, kind |-> StepOrder[2],
                    target |-> pending.target, removed |-> files \ o.files]
    /\ pending' = NoPending
    /\ UNCHANGED <<addMode, input, output, session>>

\* the process dies between the two steps: the collection and the disk stay
\* as the first step left them
Crash ==
    /\ pending # NoPending
    /\ pending' = NoPending
    /\ UNCHANGED <<store, files, addMode, last, input, output, session>>

\* app.py 751-755: search_screenshots(search_query, n_results, project_filter)
SearchScreenshots ==
    \E n_results \in ResultLimits, project_filter \in ProjectFilters :
        \E ret \in search_screenshots(store, TagA, n_results, project_filter) :
            /\ last' = [op |-> "search_screenshots", query |-> TagA,
                        n_results |-> n_results, project_filter |-> project_filter,
                        ret |-> ret]
            /\ UNCHANGED <<store, files, addMode, pending, input, output, session>>

\* app.py 757-761: search_by_tags(search_query, n_results, project_filter)
SearchByTags ==
    \E tag_query \in TagQueries, n_results \in ResultLimits,
       project_filter \in ProjectFilters :
        /\ last' = [op |-> "search_by_tags", query |-> tag_query,
                    n_results |-> n_results, project_filter |-> project_filter,
                    ret |-> search_by_tags(store, tag_query, n_results, project_filter)]
        /\ UNCHANGED <<store, files, addMode, pending, input, output, session>>

\* utils_tagging.py 240, 316: parse_json_response(raw)
ParseJsonResponse ==
    /\ output = NotCalled
    /\ output' = [called |-> TRUE, fn |-> "parse_json_response",
                  value |-> parse_json_response(input)]
    /\ UNCHANGED <<store, files, addMode, last, pending, input, session>>

\* utils_tagging.py 115: _extract_first_json_object(response_text)
ExtractFirstJsonObject ==
    /\ output = NotCalled
    /\ output' = [called |-> TRUE, fn |-> "_extract_first_json_object",
                  value |-> extract_first_json_object(input)]
    /\ UNCHANGED <<store, files, addMode, last, pending, input, session>>

\* utils_tagging.py 145: normalize_category(category), and direct calls
\* that pass a threshold
NormalizeCategory ==
    /\ output = NotCalled
    /\ output' = [called |-> TRUE, fn |-> "normalize_category",
                  value |-> normalize_category(input.category, input.threshold,
                                               input.canonical)]
    /\ UNCHANGED <<store, files, addMode, last, pending, input, session>>

\* app.py 803-817 (effective after the restart): the list is replaced
ReplaceCategories ==
    /\ output = NotCalled
    /\ \E canonical \in CanonicalLists :
        /\ canonical # input.canonical
        /\ input' = [input EXCEPT !.canonical = canonical]
    /\ UNCHANGED <<store, files, addMode, last, pending, output, session>>

\* the key of a dict entry that is left out
Absent == [t |-> "absent", v |-> <<>>]

\* what a response may hold under the k-th alias of a field: nothing, an
\* empty value, a number, or a value that tells the aliases apart
AliasValues ==
    [company_name |->
        [k \in 1..4 |->
            {Absent, PyStr(<<>>), PyInt(1),
             PyStr(<<<<" ", "a">>, <<"b">>, <<"c", " ">>, <<"d">>>>[k])}],
     product_category |->
        [k \in 1..4 |->
            {Absent, PyStr(<<>>), PyInt(1),
             PyStr(<<<<" ", "a">>, <<"b">>,
                     <<"F", "i", "t", "n", "e", "s", "s", " ", "T", "r", "a", "c", "k", "e", "r">>,
                     <<"d">>>>[k])}],
     descriptive_tags |->
        [k \in 1..3 |->
            {Absent, PyList(<<>>), PyInt(1),
             PyList(<<PyStr(<<<<"a">>, <<"b">>, <<"c">>>>[k])>>),
             PyStr(<<<<"a", ",", " ", "a">>, <<"b", ",">>, <<",", " ">>>>[k])}]]

\* the dict that holds, under each alias of the field, the value chosen for
\* it, and no key where Absent was chosen
DictOf(field, choice) ==
    LET keys == Aliases[field]
        held == {k \in DOMAIN keys : choice[k] # Absent}
        index(key) == CHOOSE k \in held : keys[k] = key
    IN  PyDict([key \in {keys[k] : k \in held} |-> choice[index(key)]])

\* the parsed responses: dicts with every combination of a field's aliases,
\* and values that are no dict
ParsedResponses ==
    UNION {{DictOf(field, choice) :
                choice \in {c \in [DOMAIN Aliases[field] -> UNION {AliasValues[field][k] : k \in DOMAIN Aliases[field]}] :
                                \A k \in DOMAIN c : c[k] \in AliasValues[field][k]}} :
           field \in Fields}
    \cup {PyList(<<>>), PyInt(1)}

\* utils_tagging.py 317: _normalize_keys(parsed)
NormalizeKeys ==
    /\ output = NotCalled
    /\ output' = [called |-> TRUE, fn |-> "_normalize_keys",
                  value |-> normalize_keys(input)]
    /\ UNCHANGED <<store, files, addMode, last, pending, input, session>>

\* the review section is on the page: app.py 480, in a run that follows the
\* rerun of line 477
ReviewShown ==
    /\ session.project_tags # <<>>
    /\ ~session.processing_complete
    /\ last.op # "process"

\* app.py 465-477: the button Process and Generate Tags, with the files and
\* the name the widgets hold at that moment
Process ==
    /\ session.upload_key < MaxBatches
    /\ last.op = "process" => session.project_tags = <<>>
    /\ \E project_name \in IngestNames, file_names \in Batches,
          response \in ProjectReplies :
        LET file_paths == SavedPaths(file_names, project_name) IN
        /\ files' = files \cup ListSet(file_paths)
        /\ session' = [session EXCEPT
                !.project_tags = generate_project_tags(file_paths, project_name, response),
                !.uploaded_files = file_paths,
                !.project_name = project_name,
                !.processing_complete = FALSE]
        /\ last' = [op |-> "process",
                    failed |-> NoProjectTags(response),
                    calls |-> <<>>,
                    errors |-> {},
                    unfinished |-> DOMAIN session.image_data_dict # {}]
    /\ UNCHANGED <<store, addMode, pending, input, output>>

\* app.py 480-574, the run after Process: the image tags are generated when
\* no data is staged, and the display loop writes the staged records
ImageTagStage ==
    /\ last.op = "process"
    /\ session.project_tags # <<>>
    /\ ~session.processing_complete
    /\ \E responses \in [DOMAIN session.uploaded_files -> ImageReplies] :
        LET uploaded_files == session.uploaded_files
            generate == DOMAIN session.image_data_dict = {}
            tagged == IF generate
                      THEN Tagged(uploaded_files,
                                  final_project_tags(session.project_tags),
                                  responses, Len(uploaded_files))
                      ELSE session.image_data_dict
        IN  /\ session' = [session EXCEPT !.image_data_dict =
                                Displayed(tagged, uploaded_files, Len(uploaded_files))]
            /\ last' = [last EXCEPT
                    !.op = "review",
                    !.calls = IF generate THEN uploaded_files ELSE <<>>,
                    !.errors = IF generate
                               THEN {k \in DOMAIN uploaded_files : responses[k].raised}
                               ELSE {}]
    /\ UNCHANGED <<store, files, addMode, pending, input, output>>

\* app.py 541-574: the user types a company and a category for one image
EditImage ==
    /\ ReviewShown
    /\ \E k \in DOMAIN session.uploaded_files,
          company_name \in CompanyTyped, product_category \in CategoryTyped :
        LET image_path == session.uploaded_files[k]
            typed == [session.image_data_dict[image_path] EXCEPT
                        !.company_name = company_name,
                        !.product_category = product_category]
        IN  /\ typed # session.image_data_dict[image_path]
            /\ session' = [session EXCEPT
                    !.image_data_dict = (image_path :> Shown(typed)) @@ @]
    /\ last' = [last EXCEPT !.op = "edit"]
    /\ UNCHANGED <<store, files, addMode, pending, input, output>>

\* app.py 589-625: Confirm and Add to Library; a raise of
\* add_screenshot_to_db ends the run with the session as it was
Commit ==
    /\ ReviewShown
    /\ all_valid(session.image_data_dict)
    /\ \E o \in CommitLoop(store, files, addMode, session,
                           final_project_tags(session.project_tags), 1) :
        /\ store' = o.store
        /\ session' = IF o.raised THEN session
                      ELSE [Cleared(session) EXCEPT !.processing_complete = TRUE]
        /\ last' = [last EXCEPT !.op = IF o.raised THEN "commit_raised" ELSE "commit"]
    /\ UNCHANGED <<files, addMode, pending, input, output>>

\* app.py 628-635: Cancel
Cancel ==
    /\ ReviewShown
    /\ session' = Cleared(session)
    /\ last' = [last EXCEPT !.op = "cancel"]
    /\ UNCHANGED <<store, files, addMode, pending, input, output>>

\* where a call finds the store unreachable: when the client and the
\* collection are opened, or at the first call on the collection
Faults == {"open", "call"}

\* a call made while the store is unreachable: get_or_create_collection is
\* called before the try and raises to the caller; a call on the collection
\* raises inside the try, and the except branch returns
Unreachable(op, swallowed) ==
    /\ \E fault \in Faults :
        last' = IF fault = "open"
                THEN [op |-> op, fault |-> fault, raised |-> TRUE]
                ELSE [op |-> op, fault |-> fault, raised |-> FALSE, ret |-> swallowed]
    /\ UNCHANGED <<store, files, addMode, pending, input, output, session>>

\* utils_db.py 100, 121-123
GetAllScreenshotsDown == Unreachable("get_all_screenshots", <<>>)

\* utils_db.py 134, 165-167
UpdateScreenshotMetadataDown == Unreachable("update_screenshot_metadata", FALSE)

\* utils_db.py 181, 212-214
UpdateProjectTagsDown == Unreachable("update_project_tags", 0)

\* utils_db.py 221, 240-242
DeleteScreenshotDown == Unreachable("delete_screenshot", FALSE)

\* utils_db.py 249, 271-273
DeleteProjectDown == Unreachable("delete_project", 0)

\* utils_db.py 280, 296-298
GetDatabaseStatsDown ==
    Unreachable("get_database_stats",
                [total_images |-> 0, total_projects |-> 0, projects |-> <<>>])

\* utils_search.py 23, 59-61
SearchScreenshotsDown == Unreachable("search_screenshots", <<>>)

\* utils_search.py 79, 116-118
SearchByTagsDown == Unreachable("search_by_tags", <<>>)

\* no thread has a call under way
Idle == [t \in Threads |-> NoPending]

\* a call of thread t has returned ret
Returned(call, ret) == [call EXCEPT !.done = TRUE, !.ret = ret]

\* update_project_tags 185-190: the records of the project are read
ProjectTagsBegin(t) ==
    /\ pending[t] = NoPending
    /\ \E project_name \in ProjectNames, new_project_tags \in RaceTagLists :
        LET results == GetWhereProject(store, project_name) IN
        pending' = [pending EXCEPT ![t] =
            [op |-> "update_project_tags", project_name |-> project_name,
             new_project_tags |-> new_project_tags, results |-> results,
             next |-> 1, done |-> results = <<>>, ret |-> 0]]
    /\ UNCHANGED <<store, files, addMode, last, input, output, session>>

\* update_project_tags 193-210: one turn of the loop writes the metadata
\* that was read for the record, with the new project tags, and the call
\* returns after the last one
ProjectTagsWrite(t) ==
    /\ pending[t] # NoPending
    /\ pending[t].op = "update_project_tags"
    /\ ~pending[t].done
    /\ LET call == pending[t]
           i == call.next
       IN  \E m \in NewProjectMetadata(call.results[i].metadata, call.new_project_tags) :
            /\ store' = CollectionUpdate(store, call.results[i].id, m)
            /\ pending' = [pending EXCEPT ![t] =
                    IF i = Len(call.results)
                    THEN Returned(call, Len(call.results))
                    ELSE [call EXCEPT !.next = i + 1]]
    /\ UNCHANGED <<files, addMode, last, input, output, session>>

\* update_screenshot_metadata 138-143: the record is read
MetadataBegin(t) ==
    /\ pending[t] = NoPending
    /\ \E u \in Uploads :
        LET doc_id == DocId(u[1], u[2])
            result == GetById(store, doc_id)
        IN  pending' = [pending EXCEPT ![t] =
                [op |-> "update_screenshot_metadata", doc_id |-> doc_id,
                 new_data |-> DataDict(<<TagA>>),
                 existing_metadata |-> IF result = <<>> THEN <<>> ELSE result[1].metadata,
                 done |-> result = <<>>, ret |-> FALSE]]
    /\ UNCHANGED <<store, files, addMode, last, input, output, session>>

\* update_screenshot_metadata 146-163: the metadata that was read is written
\* back with the new fields
MetadataWrite(t) ==
    /\ pending[t] # NoPending
    /\ pending[t].op = "update_screenshot_metadata"
    /\ ~pending[t].done
    /\ LET call == pending[t] IN
       \E a \in AllTagsStrings(Split(call.existing_metadata.project_tags),
                               Get(call.new_data, "descriptive_tags", <<>>)) :
            /\ store' = CollectionUpdate(store, call.doc_id,
                            UpdatedMetadata(call.existing_metadata, call.new_data, a))
            /\ pending' = [pending EXCEPT ![t] = Returned(call, TRUE)]
    /\ UNCHANGED <<files, addMode, last, input, output, session>>

\* delete_project 253-256: the records of the project are read
ProjectDeleteBegin(t) ==
    /\ pending[t] = NoPending
    /\ \E project_name \in ProjectNames :
        LET results == GetWhereProject(store, project_name) IN
        pending' = [pending EXCEPT ![t] =
            [op |-> "delete_project", project_name |-> project_name,
             results |-> results, done |-> results = <<>>, ret |-> 0]]
    /\ UNCHANGED <<store, files, addMode, last, input, output, session>>

\* delete_project 259-269: the records that were read are deleted, then the
\* folder of the project
ProjectDeleteWrite(t) ==
    /\ pending[t] # NoPending
    /\ pending[t].op = "delete_project"
    /\ ~pending[t].done
    /\ LET call == pending[t] IN
        /\ store' = CollectionDelete(store, Ids(call.results))
        /\ files' = {f \in files : ~IsUnder(f, ProjectFolder(call.project_name))}
        /\ pending' = [pending EXCEPT ![t] = Returned(call, Len(call.results))]
    /\ UNCHANGED <<addMode, last, input, output, session>>

(* The metadata life cycle: every upload has been saved, and records are   *)
(* created and edited with every tag list of the bound.                    *)
Init ==
    /\ store = <<>>
    /\ files = AllPaths
    /\ addMode \in AddModes
    /\ last = [op |-> "none"]
    /\ pending = NoPending
    /\ session = NoSession
    /\ input = <<>>
    /\ output = NotCalled

Next ==
    \/ Create(ProjectTagLists, DataDicts)
    \/ UpdateMetadata
    \/ UpdateProjectTags

Spec == Init /\ [][Next]_vars

(* Records and their backing files: uploads are saved, ingested with one   *)
(* fixed tag list, lost from disk, and deleted one by one or by project.   *)
InitFiles ==
    /\ store = <<>>
    /\ files = {}
    /\ addMode \in AddModes
    /\ last = [op |-> "none"]
    /\ pending = NoPending
    /\ session = NoSession
    /\ input = <<>>
    /\ output = NotCalled

NextFiles ==
    \/ SaveUploadedFiles
    \/ FileLost
    \/ Create({<<TagA>>}, {DataDict(<<TagB>>)})
    \/ Delete
    \/ DeleteProject

SpecFiles == InitFiles /\ [][NextFiles]_vars

(* Deletes taken one step at a time, with a crash possible in between; no  *)
(* other call starts while a delete is half done.                          *)
NextCrash ==
    \/ pending = NoPending /\ SaveUploadedFiles
    \/ FileLost
    \/ pending = NoPending /\ Create({<<TagA>>}, {DataDict(<<TagB>>)})
    \/ DeleteBegin
    \/ DeleteProjectBegin
    \/ DeleteEnd
    \/ Crash

SpecCrash == InitFiles /\ [][NextCrash]_vars

(* Retrieval: records of two projects, one of them named "All Projects",  *)
(* are ingested with or without the tag "b" and then searched.             *)
InitSearch ==
    /\ store = <<>>
    /\ files = {SavedPath(u[1], u[2]) : u \in SearchUploads}
    /\ addMode \in AddModes
    /\ last = [op |-> "none"]
    /\ pending = NoPending
    /\ session = NoSession
    /\ input = <<>>
    /\ output = NotCalled

NextSearch ==
    \/ CreateFrom(SearchUploads, {<<TagA>>}, {DataDict(<<TagB>>), EmptyDict})
    \/ SearchScreenshots
    \/ SearchByTags

SpecSearch == InitSearch /\ [][NextSearch]_vars

\* the store plays no part in the pure functions of utils_tagging.py and
\* tag_normalization.py
NoStore ==
    /\ store = <<>>
    /\ files = {}
    /\ addMode = "raise"
    /\ last = [op |-> "none"]
    /\ pending = NoPending
    /\ session = NoSession

(* The extractor: a response text is drawn, and parse_json_response or     *)
(* _extract_first_json_object is applied to it.                            *)
InitExtract ==
    /\ NoStore
    /\ input \in Texts
    /\ output = NotCalled

NextExtract ==
    \/ ParseJsonResponse
    \/ ExtractFirstJsonObject

SpecExtract == InitExtract /\ [][NextExtract]_vars

(* The normalizer: a candidate and a threshold are drawn, the canonical    *)
(* list is the shipped one until it is replaced, and normalize_category is *)
(* applied.                                                                *)
InitNormalize ==
    /\ NoStore
    /\ input \in [category : Candidates, threshold : Thresholds,
                  canonical : {CANONICAL_CATEGORIES}]
    /\ output = NotCalled

NextNormalize ==
    \/ ReplaceCategories
    \/ NormalizeCategory

SpecNormalize == InitNormalize /\ [][NextNormalize]_vars

(* Key normalization: a parsed response is drawn and _normalize_keys is    *)
(* applied to it.                                                          *)
InitKeys ==
    /\ NoStore
    /\ input \in ParsedResponses
    /\ output = NotCalled

NextKeys == NormalizeKeys

SpecKeys == InitKeys /\ [][NextKeys]_vars

(* Ingestion: batches are processed, tagged, reviewed and committed or    *)
(* cancelled in one browser session.                                       *)
InitIngest ==
    /\ store = <<>>
    /\ files = {}
    /\ addMode \in AddModes
    /\ last = [op |-> "none"]
    /\ pending = NoPending
    /\ input = <<>>
    /\ output = NotCalled
    /\ session = NoSession

NextIngest ==
    \/ Process
    \/ ImageTagStage
    \/ EditImage
    \/ Commit
    \/ Cancel

SpecIngest == InitIngest /\ [][NextIngest]_vars

(* Outage: uploads are saved and ingested, and the catalog and retrieval  *)
(* operations are called while the store cannot be reached.                *)
NextOutage ==
    \/ SaveUploadedFiles
    \/ Create({<<TagA>>}, {DataDict(<<TagB>>)})
    \/ GetAllScreenshotsDown
    \/ UpdateScreenshotMetadataDown
    \/ UpdateProjectTagsDown
    \/ DeleteScreenshotDown
    \/ DeleteProjectDown
    \/ GetDatabaseStatsDown
    \/ SearchScreenshotsDown
    \/ SearchByTagsDown

SpecOutage == InitFiles /\ [][NextOutage]_vars

(* Two sessions at once: records are ingested, then each of two threads   *)
(* makes one call, and the calls on the collection interleave.             *)
InitRace ==
    /\ store = <<>>
    /\ files = AllPaths
    /\ addMode \in AddModes
    /\ last = [op |-> "none"]
    /\ pending = Idle
    /\ input = <<>>
    /\ output = NotCalled
    /\ session = NoSession

NextRace ==
    \/ pending = Idle /\ Create({<<TagA>>}, {DataDict(<<TagB>>)})
    \/ \E t \in Threads :
        \/ ProjectTagsBegin(t)
        \/ ProjectTagsWrite(t)
        \/ MetadataBegin(t)
        \/ MetadataWrite(t)
        \/ ProjectDeleteBegin(t)
        \/ ProjectDeleteWrite(t)

SpecRace == InitRace /\ [][NextRace]_vars

----------------------------------------------------------------------------
(* Reading the stored record                                               *)

\* a comma-joined metadata field read as a set of tags
TagSet(s) == ListSet(GuardedSplit(s))

\* the store with every all_tags read as a set
StoreView(st) ==
    [i \in DOMAIN st |->
        [id |-> st[i].id,
         metadata |-> [st[i].metadata EXCEPT !.all_tags = TagSet(@)]]]

Members(st, project_name) ==
    {i \in DOMAIN st : st[i].metadata.project_name = project_name}

----------------------------------------------------------------------------
(* Claims                                                                  *)

\* C1: after any sequence of create, updateMetadata and updateProjectTags
\* calls, every stored screenshot's all_tags, read as a set, is exactly the
\* union of its project_tags and its descriptive_tags.
AllTagsIsUnion ==
    \A i \in DOMAIN store :
        LET m == store[i].metadata IN
        TagSet(m.all_tags) = TagSet(m.project_tags) \cup TagSet(m.descriptive_tags)

\* C2: at any instant all screenshots that share a project_name carry the
\* same project_tags.
ProjectTagsUniform ==
    \A i, j \in DOMAIN store :
        store[i].metadata.project_name = store[j].metadata.project_name
            => store[i].metadata.project_tags = store[j].metadata.project_tags

\* C3: an update_project_tags(P, T) that did not fail returns the number of
\* screenshots of P, and afterwards every screenshot of P has project_tags T
\* and all_tags equal to T united with its descriptive_tags, so all members
\* carry the same project_tags.
UpdateProjectTagsSetsAll ==
    [][(last'.op = "update_project_tags" /\ ~last'.failed) =>
        LET P == last'.project_name
            T == last'.new_project_tags
        IN  /\ last'.ret = Cardinality(Members(store, P))
            /\ Members(store', P) = Members(store, P)
            /\ \A i \in Members(store', P) :
                LET m == store'[i].metadata IN
                /\ GuardedSplit(m.project_tags) = T
                /\ TagSet(m.all_tags) = ListSet(T) \cup TagSet(m.descriptive_tags)
            /\ \A i, j \in Members(store', P) :
                store'[i].metadata.project_tags = store'[j].metadata.project_tags
      ]_vars

\* C3 witness: a project with two screenshots has been given the tags [a]
UpdateProjectTagsSetsAllWitness ==
    /\ last.op = "update_project_tags"
    /\ ~last.failed
    /\ last.ret = 2
    /\ last.new_project_tags = <<TagA>>

\* C4: an update_project_tags that fails after k screenshots were written
\* returns k.
FailureReturnsWrittenCount ==
    (last.op = "update_project_tags" /\ last.failed) => last.ret = last.written

\* C5: update_screenshot_metadata with an id that is not in the store
\* returns False and leaves the store as it was.
UpdateUnknownIdIsNoop ==
    [][(last'.op = "update_screenshot_metadata" /\ last'.doc_id \notin Ids(store)) =>
        (last'.ret = FALSE /\ store' = store)]_vars

\* C5 witness: an update of an unknown id was refused while the store holds
\* another record
UpdateUnknownIdIsNoopWitness ==
    /\ last.op = "update_screenshot_metadata"
    /\ last.ret = FALSE
    /\ store # <<>>
    /\ last.doc_id \notin Ids(store)

\* the round trip of C6 for one list T: every successful
\* update_screenshot_metadata(id, {descriptive_tags: T}) of a stored id is read
\* back by get_all_screenshots with descriptive_tags set-equal to T, and the
\* stored all_tags holds every element of T
RoundTrip(T) ==
    \A i \in DOMAIN store :
        \A o \in update_screenshot_metadata(store, store[i].id, DataDict(T)) :
            o.ret = TRUE =>
                LET shots == get_all_screenshots(o.store) IN
                \A j \in DOMAIN shots :
                    shots[j].id = store[i].id =>
                        /\ ListSet(shots[j].descriptive_tags) = ListSet(T)
                        /\ ListSet(T) \subseteq TagSet(o.store[j].metadata.all_tags)

CreateRejectsDuplicate ==
    [][(last'.op = "add_screenshot_to_db"
            /\ DocId(last'.project_name, SavedPath(last'.project_name, last'.file_name)) \in Ids(store)) =>
        (last'.raised /\ store' = store)]_vars

\* C8: add_screenshot_to_db run twice on the same inputs leaves the store as
\* one run leaves it, with exactly one record for the id when the first run
\* returned.
CreateIdempotent ==
    \A u \in Uploads, project_tags \in ProjectTagLists, image_data \in DataDicts :
        LET path == SavedPath(u[1], u[2]) IN
        \A o1 \in add_screenshot_to_db(store, files, addMode, path, u[1],
                                       project_tags, image_data) :
            \A o2 \in add_screenshot_to_db(o1.store, files, addMode, path, u[1],
                                           project_tags, image_data) :
                /\ StoreView(o2.store) = StoreView(o1.store)
                /\ ~o1.raised =>
                     Cardinality({i \in DOMAIN o2.store :
                                    o2.store[i].id = DocId(u[1], path)}) = 1

\* C8 witness: a create for an id that was already stored has returned
CreateIdempotentWitness ==
    /\ last.op = "add_screenshot_to_db"
    /\ last.existed
    /\ ~last.raised
    /\ Len(store) = 2

\* C9: a create whose id is already in the store is a create of the same
\* (project name, base file name) pair as the stored record: different pairs
\* never get the same id.
DocIdUniquePerUpload ==
    [][last'.op = "add_screenshot_to_db" =>
        \A i \in DOMAIN store :
            store[i].id = DocId(last'.project_name, SavedPath(last'.project_name, last'.file_name)) =>
                /\ store[i].metadata.project_name = last'.project_name
                /\ Basename(store[i].metadata.file_path) = last'.file_name
      ]_vars

RecordRemovedBeforeFile ==
    last.op \in {"delete_screenshot", "delete_project"} =>
        \A i \in DOMAIN store : store[i].metadata.file_path \notin last.removed

\* C11 witness: a delete_screenshot crashed between its two steps: the
\* record is gone, its file is still on disk
RecordRemovedBeforeFileWitness ==
    /\ pending = NoPending
    /\ last.op = "delete_screenshot"
    /\ last.kind = "record"
    /\ last.target \in files
    /\ store # <<>>

StatsMatchRecords ==
    \A s \in get_database_stats(store) :
        LET names == {store[i].metadata.project_name : i \in DOMAIN store} IN
        /\ s.total_images = Cardinality(DOMAIN store)
        /\ s.total_projects = Cardinality(names)
        /\ ListSet(s.projects) = names
        /\ Len(s.projects) = Cardinality(names)
        /\ \A P \in ProjectNames :
            P \in ListSet(s.projects) <=> Members(store, P) # {}

\* C13 witness: two records of one project are stored after a delete
StatsMatchRecordsWitness ==
    /\ Len(store) = 2
    /\ \E s \in get_database_stats(store) : s.total_projects = 1
    /\ last.op = "delete_project"

\* C14: for every project name X passed as project_filter, the name
\* "All Projects" included, neither search_screenshots nor search_by_tags
\* returns a record whose project differs from X.
ProjectFilterHolds ==
    (last.op \in {"search_screenshots", "search_by_tags"} /\ last.project_filter # <<>>) =>
        \A j \in DOMAIN last.ret : last.ret[j].project = last.project_filter

\* two characters that are the same letter, whatever their case
SameLetter(c, d) == c = d \/ {c, d} \in {{"a", "A"}, {"b", "B"}}

\* sub occurs in s when case is ignored
OccursIgnoringCase(sub, s) ==
    \E i \in 0..(Len(s) - Len(sub)) :
        \A k \in 1..Len(sub) : SameLetter(sub[k], s[i + k])

\* C15: search_by_tags(query, n_results, project_filter) returns exactly the
\* first n_results records, in the order of the store, among the records the
\* project filter lets through whose all_tags contains the query as a
\* substring when case is ignored: none that does not contain it, and
\* never more than n_results.
TagSearchExact ==
    last.op = "search_by_tags" =>
        LET limit == IF last.n_results = None THEN DEFAULT_SEARCH_RESULTS
                     ELSE last.n_results[1]
            through == GetWhere(store, WhereClause(last.project_filter))
            hits == SelectSeq(through,
                        LAMBDA e : OccursIgnoringCase(last.query, e.metadata.all_tags))
            ret == last.ret
        IN  /\ Len(ret) <= limit
            /\ Len(ret) = IF Len(hits) < limit THEN Len(hits) ELSE limit
            /\ \A j \in DOMAIN ret :
                /\ ret[j].id = hits[j].id
                /\ ret[j].project = hits[j].metadata.project_name
                /\ ret[j].path = hits[j].metadata.file_path
                /\ OccursIgnoringCase(last.query, hits[j].metadata.all_tags)

\* C15 witness: of two records that match the query "B" through the stored
\* tag "b", the first in store order is returned under limit 1, while a
\* third record does not match
TagSearchExactWitness ==
    /\ last.op = "search_by_tags"
    /\ last.query = TagUpperB
    /\ last.n_results = <<1>>
    /\ Len(last.ret) = 1
    /\ Len(store) = 3
    /\ last.ret[1].id = store[2].id
    /\ Cardinality({i \in DOMAIN store :
                      OccursIgnoringCase(TagUpperB, store[i].metadata.all_tags)}) = 2

\* the substrings of text that start with an opening brace and are a valid
\* JSON document, as (first position, last position)
ObjectBlocks(text) ==
    {b \in (1..Len(text)) \X (1..Len(text)) :
        /\ b[1] <= b[2]
        /\ text[b[1]] = "{"
        /\ text[b[2]] = "}"
        /\ JsonLoads(SubSeq(text, b[1], b[2])).ok}

\* C16: for every response text, valid JSON whose top-level value is no
\* object included, parse_json_response returns a mapping, and it returns
\* the empty mapping when the text holds nothing that parses as an object.
ExtractorReturnsMapping ==
    (output.called /\ output.fn = "parse_json_response") =>
        /\ output.value.t = "dict"
        /\ ObjectBlocks(input) = {} => output.value = EmptyMapping

\* C17: _extract_first_json_object returns the parse of the leftmost
\* substring that runs from an opening brace to its balancing closing brace
\* (braces inside strings and escaped quotes not counted) and is valid
\* JSON, going on to the next opening brace after a block that is unbalanced
\* or does not parse; it returns the empty mapping when there is none.
BraceScanLeftmost ==
    (output.called /\ output.fn = "_extract_first_json_object") =>
        LET blocks == ObjectBlocks(input) IN
        IF blocks = {} THEN output.value = EmptyMapping
        ELSE LET b == CHOOSE x \in blocks : \A y \in blocks : x[1] <= y[1]
             IN  /\ output.value.t = "dict"
                 /\ output.value = JsonLoads(SubSeq(input, b[1], b[2])).val

\* C17 witness: the first block of the text does not parse, the second block
\* is valid and has a closing brace inside a string; its content is returned
BraceScanLeftmostWitness ==
    /\ output.called
    /\ output.fn = "_extract_first_json_object"
    /\ input = <<"{", "a", "}", " ",
                 "{", "\"", "a", "\"", ":", "\"", "}", "\"", "}">>
    /\ output.value = PyDict(<<"a">> :> PyStr(<<"}">>))

\* two texts that are equal when case is ignored
SameIgnoringCase(x, y) ==
    Len(x) = Len(y) /\ \A k \in 1..Len(x) : SameLetter(x[k], y[k])

\* the canonical entries equal to the candidate when case is ignored
ExactEntries(category, canonical) ==
    {k \in DOMAIN canonical : SameIgnoringCase(category, canonical[k])}

NormalizeByThreshold ==
    (/\ output.called
     /\ output.fn = "normalize_category"
     /\ input.category # <<>>
     /\ ExactEntries(input.category, input.canonical) = {}) =>
        LET canonical == input.canonical
            limit == IF input.threshold = None THEN SIMILARITY_THRESHOLD
                     ELSE input.threshold
            score(k) == similarity_ratio(input.category, canonical[k])
            top == {k \in DOMAIN canonical :
                        \A j \in DOMAIN canonical : AtLeast(score(k), score(j))}
        IN  IF top # {} /\ \A k \in top : AtLeast(score(k), limit)
            THEN LET first == CHOOSE k \in top : \A j \in top : k <= j IN
                 output.value = [normalized |-> PyStr(canonical[first]), is_new |-> FALSE]
            ELSE output.value = [normalized |-> PyStr(Lower(Strip(input.category))),
                                 is_new |-> TRUE]

\* the positions of a field's aliases that are keys of d
Present(d, field) ==
    {k \in DOMAIN Aliases[field] : Aliases[field][k] \in DOMAIN d.v}

\* the positions of a field's aliases whose value in d is not empty
Filled(d, field) ==
    {k \in Present(d, field) : Truthy(d.v[Aliases[field][k]])}

\* the smallest element of a non-empty set of positions
First(S) == CHOOSE k \in S : \A j \in S : k <= j

\* C18 as stated: for each field, _normalize_keys takes the value of the
\* first alias that is present in the mapping, in the priority order, even
\* when a later alias is present too.
FirstPresentAliasWins ==
    (output.called /\ output.fn = "_normalize_keys" /\ input.t = "dict") =>
        \A field \in Fields :
            Present(input, field) # {} =>
                output.value[field] =
                    Finish(field, input.v[Aliases[field][First(Present(input, field))]])

\* C18: for each field, _normalize_keys takes the value of the first alias,
\* in the priority order, whose value is not empty (not None, "", 0, false,
\* [] or {}), even when a later alias holds a value too; when no alias holds
\* one, the field gets its default, "" or [].
FirstFilledAliasWins ==
    (output.called /\ output.fn = "_normalize_keys" /\ input.t = "dict") =>
        \A field \in Fields :
            IF Filled(input, field) # {}
            THEN output.value[field] =
                    Finish(field, input.v[Aliases[field][First(Filled(input, field))]])
            ELSE output.value[field] = Default(field)

\* C18 witness: the first alias holds "", the second and a later one hold
\* names, and the name under the second has been taken
FirstFilledAliasWinsWitness ==
    /\ output.called
    /\ output.fn = "_normalize_keys"
    /\ input.t = "dict"
    /\ Present(input, "company_name") = {1, 2, 4}
    /\ Filled(input, "company_name") = {2, 4}
    /\ output.value.company_name = PyStr(<<"b">>)

\* C21: normalize_category of an empty candidate, or of one made of
\* whitespace only, returns ("", False).
BlankCandidateReturnsEmpty ==
    (/\ output.called
     /\ output.fn = "normalize_category"
     /\ Strip(input.category) = <<>>) =>
        output.value = [normalized |-> PyStr(<<>>), is_new |-> FALSE]

\* the threshold a call works with: the one passed, or the configured one
Limit(threshold) == IF threshold = None THEN SIMILARITY_THRESHOLD ELSE threshold

\* the thresholds that are not above the given one
NotAbove(threshold) ==
    {t \in Thresholds :
        Limit(t)[1] * Limit(threshold)[2] <= Limit(threshold)[1] * Limit(t)[2]}

\* C22: for a fixed candidate and canonical list and thresholds t1 <= t2,
\* when normalize_category at t2 returns a match (is_new False) it returns
\* the same match at t1; and when it returns a novel category at t1 it
\* returns a novel one at t2.
ThresholdMonotone ==
    (output.called /\ output.fn = "normalize_category") =>
        \A t1 \in NotAbove(input.threshold) :
            LET lower == normalize_category(input.category, t1, input.canonical) IN
            /\ ~output.value.is_new => lower = output.value
            /\ lower.is_new => output.value.is_new

\* C22 witness: a candidate with no exact match has been matched at the
\* threshold one half, and is novel at the threshold one
ThresholdMonotoneWitness ==
    /\ output.called
    /\ output.fn = "normalize_category"
    /\ input.threshold = <<1, 2>>
    /\ input.category # <<>>
    /\ ExactEntries(input.category, input.canonical) = {}
    /\ ~output.value.is_new
    /\ output.value.normalized \in {PyStr(input.canonical[k]) : k \in DOMAIN input.canonical}
    /\ normalize_category(input.category, <<1, 1>>, input.canonical).is_new
    /\ <<0, 1>> \in NotAbove(input.threshold)

\* C23: when the model call of the project-tag stage raises or no project
\* tag is extracted, generate_project_tags returns the default (the tag
\* derived from the name, "ui design", "interface"), so that a started batch
\* with at least one image has project tags and goes on to the image-tag
\* stage and the review.
ProjectTagStageCompletes ==
    (last.op = "process" /\ session.uploaded_files # <<>>) =>
        /\ last.failed => session.project_tags = FallbackTags(session.project_name)
        /\ session.project_tags # <<>>

\* C24: when the review of a batch is reached, every image of the batch has
\* had one generate_image_tags call, in batch order, and has exactly one
\* staged record, the empty one when its call failed; also when data staged
\* by an earlier, unfinished batch was still in the session.
EveryImageTaggedOnce ==
    last.op = "review" =>
        /\ last.calls = session.uploaded_files
        /\ DOMAIN session.image_data_dict = ListSet(session.uploaded_files)
        /\ \A k \in last.errors :
            session.image_data_dict[session.uploaded_files[k]] = EmptyImageData

\* where a batch stands, from the last run of the upload tab
Phase(l, sess) ==
    CASE l.op = "none" -> "IDLE"
      [] l.op = "process" -> IF sess.project_tags = <<>> THEN "PENDING_PROJECT_TAGS"
                             ELSE "PENDING_IMAGE_TAGS"
      [] l.op \in {"review", "edit", "commit_raised"} -> "READY_FOR_REVIEW"
      [] l.op = "commit" -> "COMMITTED"
      [] l.op = "cancel" -> "CANCELLED"

\* the moves of the ingestion flow; a batch starts when none is under way
FlowMoves ==
    {<<p, q>> : p \in {"IDLE", "COMMITTED", "CANCELLED", "PENDING_PROJECT_TAGS"},
                q \in {"PENDING_PROJECT_TAGS", "PENDING_IMAGE_TAGS"}}
    \cup {<<"PENDING_IMAGE_TAGS", "READY_FOR_REVIEW">>,
          <<"READY_FOR_REVIEW", "READY_FOR_REVIEW">>,
          <<"READY_FOR_REVIEW", "COMMITTED">>,
          <<"READY_FOR_REVIEW", "CANCELLED">>}

\* C25: the ingestion flow moves only from PENDING_PROJECT_TAGS to
\* PENDING_IMAGE_TAGS to READY_FOR_REVIEW to COMMITTED or CANCELLED; no step
\* before the one that reaches COMMITTED changes the store, so a cancelled
\* batch leaves the store as it was; and a cancel drops the staged project
\* tags, file list, per-image data and project name.
IngestFlowKeepsStore ==
    [][/\ <<Phase(last, session), Phase(last', session')>> \in FlowMoves
       /\ Phase(last', session') # "COMMITTED" => store' = store
       /\ Phase(last', session') = "CANCELLED" =>
            /\ session'.project_tags = <<>>
            /\ session'.uploaded_files = <<>>
            /\ DOMAIN session'.image_data_dict = {}
            /\ session'.project_name = <<>>]_vars

\* the records of st that were not in the store before
Created(before, st) == {st[i] : i \in DOMAIN st} \ {before[i] : i \in DOMAIN before}

\* C26: Confirm is enabled only when every image of the batch has a
\* non-empty company name and a non-empty product category, so every record
\* a commit creates has both; add_screenshot_to_db itself stores a record
\* with both fields empty.
CommitGate ==
    [][/\ last'.op \in {"commit", "commit_raised"} =>
            /\ \A k \in DOMAIN session.uploaded_files :
                LET data == session.image_data_dict[session.uploaded_files[k]] IN
                data.company_name # <<>> /\ data.product_category # <<>>
            /\ \A r \in Created(store, store') :
                r.metadata.company_name # <<>> /\ r.metadata.product_category # <<>>
       /\ \A image_path \in files :
            DocId(ProjA, image_path) \notin Ids(store) =>
                \A o \in add_screenshot_to_db(store, files, addMode, image_path,
                                              ProjA, <<>>, EmptyImageData) :
                    /\ ~o.raised
                    /\ o.store[Len(o.store)].metadata.company_name = <<>>
                    /\ o.store[Len(o.store)].metadata.product_category = <<>>]_vars

\* C26 witness: a batch of two images, one of which got the empty record
\* because its call failed, has been committed after the fields were typed in
CommitGateWitness ==
    /\ last.op = "commit"
    /\ Len(last.calls) = 2
    /\ last.errors # {}
    /\ Len(store) = 2

\* C27: a catalog or retrieval operation called while the store cannot be
\* reached raises to its caller; it does not return an ordinary result such
\* as an empty list, 0, False or zeroed statistics.
OutageSurfaces ==
    "fault" \in DOMAIN last => last.raised

\* C29: update_screenshot_metadata and update_project_tags change the id,
\* the file path and the project name of no record; update_screenshot_metadata
\* changes no record but the one with the given id, and not its project
\* tags; update_project_tags leaves the company, category and descriptive
\* tags of the project's records, and every field of the records of other
\* projects, as they were.
EditsKeepOtherFields ==
    [][last'.op \in {"update_screenshot_metadata", "update_project_tags"} =>
        /\ Len(store') = Len(store)
        /\ \A i \in DOMAIN store :
            LET old == store[i].metadata
                new == store'[i].metadata
            IN  /\ store'[i].id = store[i].id
                /\ new.file_path = old.file_path
                /\ new.project_name = old.project_name
                /\ last'.op = "update_screenshot_metadata" =>
                    /\ store[i].id # last'.doc_id => store'[i] = store[i]
                    /\ new.project_tags = old.project_tags
                /\ last'.op = "update_project_tags" =>
                    /\ new.company_name = old.company_name
                    /\ new.product_category = old.product_category
                    /\ new.descriptive_tags = old.descriptive_tags
                    /\ old.project_name # last'.project_name => store'[i] = store[i]]_vars

\* C29 witness: the tags of a project have been rewritten for one record
\* while a record of another project is stored
EditsKeepOtherFieldsWitness ==
    /\ last.op = "update_project_tags"
    /\ last.written = 1
    /\ Len(store) = 2
    /\ \E i, j \in DOMAIN store :
        /\ store[i].metadata.project_name = last.project_name
        /\ store[j].metadata.project_name # last.project_name
        /\ store[i].metadata.project_tags # store[j].metadata.project_tags

\* both threads have made a call and both calls have returned
BothReturned == \A t \in Threads : pending[t] # NoPending /\ pending[t].done

\* C28: when two update_project_tags calls, or an update_project_tags and a
\* delete_project, on one project have both returned, whatever the order of
\* their steps, the records of the project that remain all carry the
\* project tags of one of the calls.
ProjectMutationsSerialized ==
    \A t, u \in Threads :
        (/\ BothReturned
         /\ t # u
         /\ pending[t].op = "update_project_tags"
         /\ pending[u].op \in {"update_project_tags", "delete_project"}
         /\ pending[u].project_name = pending[t].project_name) =>
            \E w \in {v \in {t, u} : pending[v].op = "update_project_tags"} :
                \A i \in Members(store, pending[t].project_name) :
                    store[i].metadata.project_tags = Join(pending[w].new_project_tags)

\* C30: when update_screenshot_metadata on a record of project P and
\* update_project_tags(P, T) have both returned successfully, whatever the
\* order of their steps, the record carries the project tags T, the
\* descriptive tags the first call wrote, and all_tags made of both.
NoLostUpdate ==
    \A t, u \in Threads :
        (/\ BothReturned
         /\ pending[t].op = "update_screenshot_metadata"
         /\ pending[t].ret
         /\ pending[u].op = "update_project_tags"
         /\ pending[u].ret > 0
         /\ pending[t].existing_metadata.project_name = pending[u].project_name) =>
            \A i \in DOMAIN store :
                store[i].id = pending[t].doc_id =>
                    LET m == store[i].metadata
                        descriptive_tags == Get(pending[t].new_data, "descriptive_tags", <<>>)
                    IN  /\ m.project_tags = Join(pending[u].new_project_tags)
                        /\ m.descriptive_tags = Join(descriptive_tags)
                        /\ ListSet(GuardedSplit(m.all_tags)) =
                             ListSet(pending[u].new_project_tags \o descriptive_tags)

====
